---- MODULE Spec2Model ----
(***************************************************************************)
(* A model of scripts/gen_icons.py: one run of main(), which composes an   *)
(* icon per target size with generate_icon() and writes the PNG, ICO and   *)
(* ICNS outputs, and the geometry of rounded_rect_mask().                  *)
(*                                                                         *)
(* Images are modelled by the facts the script fixes about them (the size  *)
(* passed to generate_icon, the canvas dimensions, radius, padding, where  *)
(* the logo is pasted, which decode of the source it came from); the       *)
(* environment (source logo file, output directory, failing writes) is     *)
(* nondeterministic.                                                       *)
(***************************************************************************)
EXTENDS Integers, Sequences, FiniteSets, TLC

VARIABLES
    pc,          \* the statement of main() that runs next
    idx,         \* position in the loop over png_sizes / ico_sizes
    call,        \* the generate_icon() activation in progress, or Idle
    icon,        \* main's local `icon` (NoImage while unbound)
    ico_images,  \* main's list `ico_images`
    icns_icon,   \* main's local `icns_icon` (NoImage while unbound)
    dir,         \* ICONS_DIR: "absent" or "present"
    fs,          \* ICONS_DIR's files: filename -> content
    fs0,         \* the files ICONS_DIR held when the run started
    logo,        \* LOGO_PATH on disk: "ok", "missing" or "corrupt"
    logo0,       \* LOGO_PATH on disk when the run started
    ncalls,      \* generate_icon() calls made so far
    opens,       \* Image.open(LOGO_PATH) calls made so far
    stdout,      \* the lines printed so far
    failedAt,    \* the step whose exception ended the run (NoFailure if none)
    probe        \* a pixel of one background layer under inspection

vars == <<pc, idx, call, icon, ico_images, icns_icon, dir, fs, fs0, logo, logo0,
          ncalls, opens, stdout, failedAt, probe>>

mainVars == <<pc, idx, call, icon, ico_images, icns_icon, dir, fs, fs0, logo, logo0,
              ncalls, opens, stdout, failedAt>>

----------------------------------------------------------------------------
(* Module-level constants, gen_icons.py lines 11-13.  The ratios are kept  *)
(* as integers over RatioDen: 0.164 = 164/1000 and 0.05 = 50/1000.         *)

CORNER_RADIUS_RATIO == 164
LOGO_PADDING_RATIO == 50
RatioDen == 1000

(* round(size * ratio) instead of int(size * ratio). *)
RoundOfProduct(size, ratio) == (2 * size * ratio + RatioDen) \div (2 * RatioDen)

(* int(size * ratio): the float product truncated toward zero.  For every  *)
(* size the script composes the exact product is no integer (nor within a *)
(* float ulp of one), so the truncation equals the exact floor.            *)
IntOfProduct(size, ratio) == (size * ratio) \div RatioDen

(* The retina entry given its logical size instead of its pixel size. *)
png_sizes_logical ==
    << [filename |-> "32x32.png",      size |-> 32],
       [filename |-> "64x64.png",      size |-> 64],
       [filename |-> "128x128.png",    size |-> 128],
       [filename |-> "128x128@2x.png", size |-> 128],
       [filename |-> "512x512.png",    size |-> 512],
       [filename |-> "icon.png",       size |-> 512] >>

(* A seventh ICO size. *)
ico_sizes_with128 == <<256, 128, 64, 48, 32, 24, 16>>

(* The fixed tables of main(). *)
png_sizes ==
    << [filename |-> "32x32.png",      size |-> 32],
       [filename |-> "64x64.png",      size |-> 64],
       [filename |-> "128x128.png",    size |-> 128],
       [filename |-> "128x128@2x.png", size |-> 256],
       [filename |-> "512x512.png",    size |-> 512],
       [filename |-> "icon.png",       size |-> 512] >>

ico_sizes == <<256, 64, 48, 32, 24, 16>>

ICNS_SIZE == 512

ICO_NAME == "icon.ico"
ICNS_NAME == "icon.icns"

SeqRange(s) == {s[k] : k \in DOMAIN s}

PngNames == {png_sizes[k].filename : k \in DOMAIN png_sizes}
OutputNames == PngNames \cup {ICO_NAME, ICNS_NAME}

----------------------------------------------------------------------------
(* Values. *)

NoImage ==
    [n |-> 0, arg |-> 0, w |-> 0, h |-> 0, radius |-> 0, padding |-> 0,
     masked |-> FALSE, logo_at |-> <<0, 0>>, logo_side |-> 0, src |-> 0,
     complete |-> FALSE]

Idle == [at |-> "idle", size |-> 0, img |-> NoImage, logo |-> 0, logo_size |-> 0]

StaleFile == [kind |-> "stale", format |-> "?", images |-> <<>>, sizes |-> <<>>]
PartialFile == [kind |-> "partial", format |-> "?", images |-> <<>>, sizes |-> <<>>]

Written(format, images, sizes) ==
    [kind |-> "written", format |-> format, images |-> images, sizes |-> sizes]

NoFailure == [kind |-> "none", target |-> ""]
Failure(kind, target) == [kind |-> kind, target |-> target]

NoFiles == [f \in {} |-> StaleFile]
AllStale == [f \in OutputNames |-> StaleFile]

Put(files, name, content) ==
    [f \in (DOMAIN files) \cup {name} |-> IF f = name THEN content ELSE files[f]]

----------------------------------------------------------------------------
Init ==
    /\ pc = "mkdir"
    /\ idx = 1
    /\ call = Idle
    /\ icon = NoImage
    /\ ico_images = <<>>
    /\ icns_icon = NoImage
    /\ \E d \in {"absent", "present"}, old \in {NoFiles, AllStale} :
          /\ (d = "absent" => old = NoFiles)
          /\ dir = d
          /\ fs = old
          /\ fs0 = old
    /\ \E l \in {"ok", "missing", "corrupt"} : logo = l /\ logo0 = l
    /\ ncalls = 0
    /\ opens = 0
    /\ stdout = <<>>
    /\ failedAt = NoFailure
    /\ probe = [stage |-> "none", size |-> 0, radius |-> 0, corner |-> "tl",
                x |-> 0, y |-> 0, lo |-> 0, hi |-> 0]

----------------------------------------------------------------------------
(* generate_icon(size), lines 27-45, one action per statement group.       *)

Radius(size) == IntOfProduct(size, CORNER_RADIUS_RATIO)

Padding(size) == IntOfProduct(size, LOGO_PADDING_RATIO)

(* The padding subtracted once instead of on both sides. *)
LogoSizeOnePad(size, padding) == size - padding

LogoSize(size, padding) == size - 2 * padding

PasteOffset(padding) == <<padding, padding>>

(* The activation record of the (ncalls + 1)-th call. *)
Enter(size) == [Idle EXCEPT !.at = "params", !.size = size, !.img.n = ncalls + 1]

(* The output file the statement at pc works towards. *)
Target ==
    IF pc \in {"ico_call", "ico_save", "ico_print"} THEN ICO_NAME
    ELSE IF pc \in {"icns_call", "icns_save", "icns_print"} THEN ICNS_NAME
    ELSE png_sizes[idx].filename

(* lines 29-30 *)
GenParams ==
    /\ call.at = "params"
    /\ call' = [call EXCEPT !.at = "background",
                            !.img.arg = call.size,
                            !.img.radius = Radius(call.size),
                            !.img.padding = Padding(call.size)]
    /\ UNCHANGED <<pc, idx, icon, ico_images, icns_icon, dir, fs, fs0, logo, logo0,
                   ncalls, opens, stdout, failedAt, probe>>

(* lines 33-36: the size x size canvas with the colour pasted through the mask *)
GenBackground ==
    /\ call.at = "background"
    /\ call' = [call EXCEPT !.at = "open",
                            !.img.w = call.size,
                            !.img.h = call.size,
                            !.img.masked = TRUE]
    /\ UNCHANGED <<pc, idx, icon, ico_images, icns_icon, dir, fs, fs0, logo, logo0,
                   ncalls, opens, stdout, failedAt, probe>>

(* The decoded logo kept in a module-level cache: only the first call opens it. *)
GenOpenLogoCached ==
    /\ call.at = "open"
    /\ logo = "ok" \/ opens > 0
    /\ opens' = IF opens = 0 THEN 1 ELSE opens
    /\ call' = [call EXCEPT !.at = "resize", !.logo = 1]
    /\ UNCHANGED <<pc, idx, icon, ico_images, icns_icon, dir, fs, fs0, logo, logo0,
                   ncalls, stdout, failedAt, probe>>

(* line 39, the source file present and decodable *)
GenOpenLogo ==
    /\ call.at = "open"
    /\ logo = "ok"
    /\ opens' = opens + 1
    /\ call' = [call EXCEPT !.at = "resize", !.logo = opens + 1]
    /\ UNCHANGED <<pc, idx, icon, ico_images, icns_icon, dir, fs, fs0, logo, logo0,
                   ncalls, stdout, failedAt, probe>>

(* The exception of line 39 caught and the icon composed without a logo. *)
GenOpenLogoFailIgnored ==
    /\ call.at = "open"
    /\ logo # "ok"
    /\ opens' = opens + 1
    /\ call' = [call EXCEPT !.at = "resize"]
    /\ UNCHANGED <<pc, idx, icon, ico_images, icns_icon, dir, fs, fs0, logo, logo0,
                   ncalls, stdout, failedAt, probe>>

(* line 39, Image.open / convert raising: nothing catches it *)
GenOpenLogoFail ==
    /\ call.at = "open"
    /\ logo # "ok"
    /\ opens' = opens + 1
    /\ call' = [call EXCEPT !.at = "raised"]
    /\ pc' = "aborted"
    /\ failedAt' = Failure("decode", Target)
    /\ UNCHANGED <<idx, icon, ico_images, icns_icon, dir, fs, fs0, logo, logo0,
                   ncalls, stdout, probe>>

(* lines 40-41 *)
GenResize ==
    /\ call.at = "resize"
    /\ call' = [call EXCEPT !.at = "paste",
                            !.logo_size = LogoSize(call.size, call.img.padding)]
    /\ UNCHANGED <<pc, idx, icon, ico_images, icns_icon, dir, fs, fs0, logo, logo0,
                   ncalls, opens, stdout, failedAt, probe>>

(* line 44 *)
GenPaste ==
    /\ call.at = "paste"
    /\ call' = [call EXCEPT !.at = "return",
                            !.img.logo_at = PasteOffset(call.img.padding),
                            !.img.logo_side = call.logo_size,
                            !.img.src = call.logo]
    /\ UNCHANGED <<pc, idx, icon, ico_images, icns_icon, dir, fs, fs0, logo, logo0,
                   ncalls, opens, stdout, failedAt, probe>>

(* line 45: the value the caller receives *)
Result == [call.img EXCEPT !.complete = TRUE]

----------------------------------------------------------------------------
(* main(), lines 48-84. *)

Line(kind, file, sizes) == [kind |-> kind, file |-> file, sizes |-> sizes]

(* line 49 *)
Mkdir ==
    /\ pc = "mkdir"
    /\ dir' = "present"
    /\ pc' = "png_call"
    /\ UNCHANGED <<idx, call, icon, ico_images, icns_icon, fs, fs0, logo, logo0,
                   ncalls, opens, stdout, failedAt, probe>>

(* line 49 raising (the directory cannot be created) *)
MkdirFail ==
    /\ pc = "mkdir"
    /\ dir = "absent"
    /\ pc' = "aborted"
    /\ failedAt' = Failure("mkdir", "")
    /\ UNCHANGED <<idx, call, icon, ico_images, icns_icon, dir, fs, fs0, logo, logo0,
                   ncalls, opens, stdout, probe>>

(* The progress line printed before the save. *)
PngBodyPrintFirst == <<"png_call", "png_print", "png_save">>

(* The order of the statements of the loop body, lines 62-64. *)
PngBody == <<"png_call", "png_save", "png_print">>

StmtAfter(body, s) ==
    LET k == CHOOSE n \in DOMAIN body : body[n] = s
    IN  IF k < Len(body) THEN body[k + 1] ELSE "end"

(* Control after statement s of the loop body: the next statement, the    *)
(* next entry of png_sizes, or line 67 once the table is exhausted.       *)
PngAdvance(s) ==
    IF StmtAfter(PngBody, s) # "end"
    THEN pc' = StmtAfter(PngBody, s) /\ idx' = idx
    ELSE IF idx < Len(png_sizes)
         THEN pc' = PngBody[1] /\ idx' = idx + 1
         ELSE pc' = "ico_call" /\ idx' = 1

(* line 62: the call *)
PngCall ==
    /\ pc = "png_call"
    /\ call.at = "idle"
    /\ call' = Enter(png_sizes[idx].size)
    /\ ncalls' = ncalls + 1
    /\ UNCHANGED <<pc, idx, icon, ico_images, icns_icon, dir, fs, fs0, logo, logo0,
                   opens, stdout, failedAt, probe>>

(* line 62: the return value bound to `icon` *)
PngReturn ==
    /\ pc = "png_call"
    /\ call.at = "return"
    /\ icon' = Result
    /\ call' = Idle
    /\ PngAdvance("png_call")
    /\ UNCHANGED <<ico_images, icns_icon, dir, fs, fs0, logo, logo0,
                   ncalls, opens, stdout, failedAt, probe>>

(* line 63 *)
PngSave ==
    /\ pc = "png_save"
    /\ dir = "present"
    /\ fs' = Put(fs, png_sizes[idx].filename, Written("PNG", <<icon>>, <<>>))
    /\ PngAdvance("png_save")
    /\ UNCHANGED <<call, icon, ico_images, icns_icon, dir, fs0, logo, logo0,
                   ncalls, opens, stdout, failedAt, probe>>

(* A save that raises: the target is untouched (it could not be opened)   *)
(* or is left truncated.                                                  *)
FailedSave(name) == {fs, Put(fs, name, PartialFile)}

(* The exception of line 63 caught and the save tried again. *)
PngSaveFailRetried ==
    /\ pc = "png_save"
    /\ fs' = Put(fs, png_sizes[idx].filename, PartialFile)
    /\ UNCHANGED <<pc, idx, call, icon, ico_images, icns_icon, dir, fs0, logo, logo0,
                   ncalls, opens, stdout, failedAt, probe>>

(* line 63 raising *)
PngSaveFail ==
    /\ pc = "png_save"
    /\ \E after \in FailedSave(png_sizes[idx].filename) : fs' = after
    /\ pc' = "aborted"
    /\ failedAt' = Failure("write", png_sizes[idx].filename)
    /\ UNCHANGED <<idx, call, icon, ico_images, icns_icon, dir, fs0, logo, logo0,
                   ncalls, opens, stdout, probe>>

(* line 64 *)
PngPrint ==
    /\ pc = "png_print"
    /\ stdout' = Append(stdout, Line("generated", png_sizes[idx].filename,
                                     <<png_sizes[idx].size>>))
    /\ PngAdvance("png_print")
    /\ UNCHANGED <<call, icon, ico_images, icns_icon, dir, fs, fs0, logo, logo0,
                   ncalls, opens, failedAt, probe>>

(* line 68: one call of the list comprehension *)
IcoCall ==
    /\ pc = "ico_call"
    /\ call.at = "idle"
    /\ call' = Enter(ico_sizes[idx])
    /\ ncalls' = ncalls + 1
    /\ UNCHANGED <<pc, idx, icon, ico_images, icns_icon, dir, fs, fs0, logo, logo0,
                   opens, stdout, failedAt, probe>>

(* line 68: the result appended; line 71 follows the last one *)
IcoReturn ==
    /\ pc = "ico_call"
    /\ call.at = "return"
    /\ ico_images' = Append(ico_images, Result)
    /\ call' = Idle
    /\ IF idx < Len(ico_sizes)
       THEN pc' = pc /\ idx' = idx + 1
       ELSE pc' = "ico_save" /\ idx' = 1
    /\ UNCHANGED <<icon, icns_icon, dir, fs, fs0, logo, logo0,
                   ncalls, opens, stdout, failedAt, probe>>

(* lines 71-76: the image save() is called on, append_images=, sizes= *)
IcoBase == ico_images[1]

(* append_images=ico_images, the base image included. *)
IcoAppendAll == ico_images

IcoAppendImages == Tail(ico_images)

IcoSizesArg == [k \in DOMAIN ico_sizes |-> <<ico_sizes[k], ico_sizes[k]>>]

IcoSave ==
    /\ pc = "ico_save"
    /\ dir = "present"
    /\ fs' = Put(fs, ICO_NAME, Written("ICO", <<IcoBase>> \o IcoAppendImages, IcoSizesArg))
    /\ pc' = "ico_print"
    /\ UNCHANGED <<idx, call, icon, ico_images, icns_icon, dir, fs0, logo, logo0,
                   ncalls, opens, stdout, failedAt, probe>>

(* lines 71-76 raising *)
IcoSaveFail ==
    /\ pc = "ico_save"
    /\ \E after \in FailedSave(ICO_NAME) : fs' = after
    /\ pc' = "aborted"
    /\ failedAt' = Failure("write", ICO_NAME)
    /\ UNCHANGED <<idx, call, icon, ico_images, icns_icon, dir, fs0, logo, logo0,
                   ncalls, opens, stdout, probe>>

(* line 77 *)
IcoPrint ==
    /\ pc = "ico_print"
    /\ stdout' = Append(stdout, Line("generated", ICO_NAME, ico_sizes))
    /\ pc' = "icns_call"
    /\ UNCHANGED <<idx, call, icon, ico_images, icns_icon, dir, fs, fs0, logo, logo0,
                   ncalls, opens, failedAt, probe>>

(* line 80: the call *)
IcnsCall ==
    /\ pc = "icns_call"
    /\ call.at = "idle"
    /\ call' = Enter(ICNS_SIZE)
    /\ ncalls' = ncalls + 1
    /\ UNCHANGED <<pc, idx, icon, ico_images, icns_icon, dir, fs, fs0, logo, logo0,
                   opens, stdout, failedAt, probe>>

(* line 80: the return value bound to `icns_icon` *)
IcnsReturn ==
    /\ pc = "icns_call"
    /\ call.at = "return"
    /\ icns_icon' = Result
    /\ call' = Idle
    /\ pc' = "icns_save"
    /\ UNCHANGED <<idx, icon, ico_images, dir, fs, fs0, logo, logo0,
                   ncalls, opens, stdout, failedAt, probe>>

(* line 81 *)
IcnsSave ==
    /\ pc = "icns_save"
    /\ dir = "present"
    /\ fs' = Put(fs, ICNS_NAME, Written("ICNS", <<icns_icon>>, <<>>))
    /\ pc' = "icns_print"
    /\ UNCHANGED <<idx, call, icon, ico_images, icns_icon, dir, fs0, logo, logo0,
                   ncalls, opens, stdout, failedAt, probe>>

(* line 81 raising *)
IcnsSaveFail ==
    /\ pc = "icns_save"
    /\ \E after \in FailedSave(ICNS_NAME) : fs' = after
    /\ pc' = "aborted"
    /\ failedAt' = Failure("write", ICNS_NAME)
    /\ UNCHANGED <<idx, call, icon, ico_images, icns_icon, dir, fs0, logo, logo0,
                   ncalls, opens, stdout, probe>>

(* line 82 *)
IcnsPrint ==
    /\ pc = "icns_print"
    /\ stdout' = Append(stdout, Line("generated", ICNS_NAME, <<>>))
    /\ pc' = "done_print"
    /\ UNCHANGED <<idx, call, icon, ico_images, icns_icon, dir, fs, fs0, logo, logo0,
                   ncalls, opens, failedAt, probe>>

(* line 84, after which main() returns *)
DonePrint ==
    /\ pc = "done_print"
    /\ stdout' = Append(stdout, Line("done", "", <<>>))
    /\ pc' = "exit"
    /\ UNCHANGED <<idx, call, icon, ico_images, icns_icon, dir, fs, fs0, logo, logo0,
                   ncalls, opens, failedAt, probe>>

(* The environment: the source file is deleted or damaged during the run. *)
EnvLogoLost ==
    /\ pc \notin {"exit", "aborted"}
    /\ logo = "ok"
    /\ \E l \in {"missing", "corrupt"} : logo' = l
    /\ UNCHANGED <<pc, idx, call, icon, ico_images, icns_icon, dir, fs, fs0, logo0,
                   ncalls, opens, stdout, failedAt, probe>>

Next ==
    \/ Mkdir \/ MkdirFail
    \/ GenParams \/ GenBackground \/ GenOpenLogo \/ GenOpenLogoFail
    \/ GenResize \/ GenPaste
    \/ PngCall \/ PngReturn \/ PngSave \/ PngSaveFail \/ PngPrint
    \/ IcoCall \/ IcoReturn \/ IcoSave \/ IcoSaveFail \/ IcoPrint
    \/ IcnsCall \/ IcnsReturn \/ IcnsSave \/ IcnsSaveFail \/ IcnsPrint
    \/ DonePrint
    \/ EnvLogoLost

Spec == Init /\ [][Next]_vars

----------------------------------------------------------------------------
(* rounded_rect_mask(size, radius), lines 16-24, and the paste of line 36,  *)
(* followed for one pixel of the background layer.  A value of the mask or  *)
(* of the layer's alpha is kept as the interval [lo, hi] it is known to lie *)
(* in: the exact pixels the library's ellipse rasteriser fills along the    *)
(* arc, and the exact Lanczos weights, are not part of this repository.     *)

scale == 4

(* The filter's support in output pixels (Lanczos, three lobes). *)
LANCZOS_SUPPORT == 3

(* How far, in pixels of the 4x canvas, the drawn arc may lie from the     *)
(* ideal circle of radius large_radius.                                    *)
EdgeTol == 2

Max(a, b) == IF a >= b THEN a ELSE b
Min(a, b) == IF a <= b THEN a ELSE b

(* line 19 *)
Large(size) == size * scale

(* The radius passed on unscaled. *)
LargeRadiusUnscaled(radius) == radius

(* line 20 *)
LargeRadius(radius) == radius * scale

(* line 23: where pixel (X, Y) of the 4x canvas lies with respect to       *)
(* rounded_rectangle([0, 0, large - 1, large - 1], large_radius): "in"     *)
(* (filled, 255), "out" (left 0) or "edge" (within EdgeTol of the arc).    *)
(* The corner arcs are quarter circles of radius R centred R pixels in     *)
(* from each side; between them the rectangle is filled edge to edge.      *)
Drawn(size, radius, X, Y) ==
    LET N  == Large(size) - 1
        R  == LargeRadius(radius)
        dx == IF X < R THEN R - X ELSE IF X > N - R THEN X - (N - R) ELSE 0
        dy == IF Y < R THEN R - Y ELSE IF Y > N - R THEN Y - (N - R) ELSE 0
        d2 == dx * dx + dy * dy
    IN  IF dx = 0 \/ dy = 0 THEN "in"
        ELSE IF R > EdgeTol /\ d2 <= (R - EdgeTol) * (R - EdgeTol) THEN "in"
        ELSE IF d2 >= (R + EdgeTol) * (R + EdgeTol) THEN "out"
        ELSE "edge"

(* line 24: the input coordinates the downsampling filter reads for output *)
(* coordinate c: those within LANCZOS_SUPPORT * scale of the centre of c,  *)
(* clamped to the canvas.                                                  *)
Window(size, c) ==
    Max(0, scale * c + scale \div 2 - LANCZOS_SUPPORT * scale)
      .. (Min(Large(size), scale * c + scale \div 2 + LANCZOS_SUPPORT * scale) - 1)

(* lines 21-24: the interval of the mask at pixel (x, y).  The filter's    *)
(* weights are normalised and the result clipped to 0..255: an all-0       *)
(* window gives 0 and an all-255 window 255.                               *)
rounded_rect_mask(size, radius, x, y) ==
    LET seen == {Drawn(size, radius, X, Y) : X \in Window(size, x), Y \in Window(size, y)}
    IN  IF seen = {"out"} THEN [lo |-> 0, hi |-> 0]
        ELSE IF seen = {"in"} THEN [lo |-> 255, hi |-> 255]
        ELSE [lo |-> 0, hi |-> 255]

(* line 36: one channel of bg.paste(colored, (0, 0), mask) *)
PasteThrough(dst, src, m) == (dst * (255 - m) + src * m) \div 255

Corners == {"tl", "tr", "bl", "br"}

(* The pixel at offset (x, y) from a corner of a size x size image. *)
CornerPixel(size, corner, x, y) ==
    << IF corner \in {"tl", "bl"} THEN x ELSE size - 1 - x,
       IF corner \in {"tl", "tr"} THEN y ELSE size - 1 - y >>

(* The offsets inspected: the corner square of side radius / 2, rounded up. *)
ProbeSide(radius) == (radius + 1) \div 2

AllSizes == {png_sizes[k].size : k \in DOMAIN png_sizes} \cup SeqRange(ico_sizes) \cup {ICNS_SIZE}

(* lines 29, 35: generate_icon(size) computes the radius it passes on *)
ProbeParams ==
    /\ probe.stage = "none"
    /\ \E size \in AllSizes :
          probe' = [probe EXCEPT !.stage = "params", !.size = size, !.radius = Radius(size)]
    /\ UNCHANGED mainVars

(* lines 35, 16-24: one pixel of the mask *)
ProbeMask ==
    /\ probe.stage = "params"
    /\ \E corner \in Corners, x, y \in 0 .. (ProbeSide(probe.radius) - 1) :
          LET p == CornerPixel(probe.size, corner, x, y)
              m == rounded_rect_mask(probe.size, probe.radius, p[1], p[2])
          IN  probe' = [probe EXCEPT !.stage = "mask", !.corner = corner,
                                     !.x = x, !.y = y, !.lo = m.lo, !.hi = m.hi]
    /\ UNCHANGED mainVars

(* lines 33-36: the alpha of that pixel of bg once the opaque colour is    *)
(* pasted onto the transparent canvas through the mask                    *)
ProbePaste ==
    /\ probe.stage = "mask"
    /\ probe' = [probe EXCEPT !.stage = "background",
                              !.lo = PasteThrough(0, 255, probe.lo),
                              !.hi = PasteThrough(0, 255, probe.hi)]
    /\ UNCHANGED mainVars

InitMask == Init /\ logo = "ok" /\ dir = "present" /\ fs = NoFiles

NextMask == ProbeParams \/ ProbeMask \/ ProbePaste

SpecMask == InitMask /\ [][NextMask]_vars

----------------------------------------------------------------------------
(* What the claims speak about. *)

(* Every image generate_icon has started to build and something still holds. *)
Held ==
    {im \in ({call.img, icon, icns_icon} \cup SeqRange(ico_images)) : im.arg > 0}

(* The composed images in memory: canvases created (line 33) and still held. *)
Live == {im \in Held : im.w > 0}

(* The sizes the reference configuration composes. *)
ComposedSizes == {16, 24, 32, 48, 64, 128, 256, 512}

(* x rounded to the nearest integer, for x = num / den. *)
IsNearest(n, num, den) == 2 * den * n - den <= 2 * num /\ 2 * num < 2 * den * n + den

(* floor(num / den) *)
IsFloor(n, num, den) == den * n <= num /\ num < den * (n + 1)

(* C1 as the spec states it: generate_icon(S) uses radius = round(S x 0.164) and
   padding = round(S x 0.05), rounded to the nearest integer. *)
C1_ParamsRounded ==
    \A im \in Held :
        /\ IsNearest(im.radius, im.arg * 164, 1000)
        /\ IsNearest(im.padding, im.arg * 50, 1000)

(* C1 amended: for every size S the reference configuration composes,
   generate_icon(S) uses radius = floor(S x 0.164) and padding = floor(S x 0.05):
   int() truncates, it does not round to nearest. *)
C1_ParamsTruncated ==
    \A im \in Held :
        /\ im.arg \in ComposedSizes
        /\ IsFloor(im.radius, im.arg * 164, 1000)
        /\ IsFloor(im.padding, im.arg * 50, 1000)

(* generate_icon(128) has computed radius 20 and padding 6, where rounding
   would give 21 and 6. *)
C1_Witness ==
    /\ call.at = "background"
    /\ call.size = 128
    /\ call.img.radius = 20
    /\ call.img.padding = 6

(* C10: the resized logo has side L = S - 2 x padding >= 1, is pasted at
   (padding, padding) and so lies inside the S x S canvas with a margin of
   exactly padding pixels on all four sides. *)
C10_LogoCentered ==
    \A im \in Held :
        im.src > 0 =>
            /\ im.logo_side = im.arg - 2 * im.padding
            /\ im.logo_side >= 1
            /\ im.logo_at = <<im.padding, im.padding>>
            /\ im.logo_at[1] + im.logo_side + im.padding = im.w
            /\ im.logo_at[2] + im.logo_side + im.padding = im.h
            /\ im.w = im.arg /\ im.h = im.arg

(* The 512 icon has its 462-pixel logo pasted at (25, 25). *)
C10_Witness ==
    /\ call.at = "return"
    /\ call.size = 512
    /\ call.img.logo_side = 462
    /\ call.img.logo_at = <<25, 25>>

(* C2 as the spec states it: the source logo is read and decoded exactly once
   in a run, and that one decoded image serves every generate_icon call. *)
C2_DecodedOnce ==
    /\ opens <= 1
    /\ \A im \in Held : im.src > 0 => im.src = 1
    /\ pc = "exit" => opens = 1

(* C2 amended: the source logo is opened and decoded by every generate_icon
   call itself (line 39), once per call and 13 times in a complete run; each
   call resizes the image it decoded and no decoded image is shared. *)
C2_DecodedPerCall ==
    /\ opens = ncalls - (IF call.at \in {"params", "background", "open"} THEN 1 ELSE 0)
    /\ \A im \in Held : im.src > 0 => im.src = im.n
    /\ call.logo > 0 => call.logo = call.img.n
    /\ pc = "exit" => opens = 13

(* A complete run has opened the source 13 times. *)
C2_Witness == pc = "exit" /\ opens = 13 /\ icns_icon.src = 13

(* C3: with the source logo missing or undecodable and a fresh output
   directory, the run aborts before any output file is written: the directory
   never holds a file, nothing is printed and the run never completes. *)
C3_NoOutputWithoutLogo ==
    (logo0 # "ok" /\ DOMAIN fs0 = {}) =>
        /\ DOMAIN fs = {}
        /\ stdout = <<>>
        /\ pc \notin {"png_save", "png_print", "exit"}
        /\ pc = "aborted" => failedAt.kind \in {"mkdir", "decode"}

(* The run aborted at the first decode, the directory created and empty. *)
C3_Witness ==
    /\ pc = "aborted"
    /\ logo0 = "missing"
    /\ failedAt = Failure("decode", "32x32.png")
    /\ dir = "present"
    /\ DOMAIN fs = {}
    /\ DOMAIN fs0 = {}

(* The order in which main() writes its outputs. *)
OutputOrder ==
    <<"32x32.png", "64x64.png", "128x128.png", "128x128@2x.png", "512x512.png",
      "icon.png", "icon.ico", "icon.icns">>

Pos(f) == CHOOSE k \in DOMAIN OutputOrder : OutputOrder[k] = f

IsWritten(f) == f \in DOMAIN fs /\ fs[f].kind = "written"

Untouched(f) ==
    /\ f \in DOMAIN fs <=> f \in DOMAIN fs0
    /\ f \in DOMAIN fs => fs[f] = fs0[f]

C4_AbortState ==
    /\ (\E f \in DOMAIN fs : fs[f].kind = "partial") =>
           pc = "aborted" /\ failedAt.kind = "write"
    /\ pc = "aborted" =>
        /\ failedAt.kind \in {"mkdir", "decode", "write"}
        /\ \A f \in SeqRange(OutputOrder) :
              IF failedAt.kind = "mkdir"
              THEN Untouched(f)
              ELSE /\ Pos(f) < Pos(failedAt.target) => IsWritten(f)
                   /\ Pos(f) > Pos(failedAt.target) => Untouched(f)
                   /\ (f = failedAt.target /\ failedAt.kind = "decode") => Untouched(f)
                   /\ f = failedAt.target => ~IsWritten(f) \/ Untouched(f)

C4_Step ==
    /\ \A f \in DOMAIN fs :
          fs[f].kind = "written" => f \in DOMAIN fs' /\ fs'[f] = fs[f]
    /\ pc = "aborted" => pc' = "aborted" /\ fs' = fs /\ stdout' = stdout

(* C4: when a step of main() fails the run aborts at that step: the files
   written before it stay on disk unchanged, no later file of the sequence is
   written, and the failed step is not retried. *)
C4_AbortAtFailure == []C4_AbortState /\ [][C4_Step]_vars

(* The save of 128x128.png failed, leaving it truncated, after two files
   were written. *)
C4_Witness ==
    /\ pc = "aborted"
    /\ failedAt = Failure("write", "128x128.png")
    /\ IsWritten("32x32.png") /\ IsWritten("64x64.png")
    /\ "128x128.png" \in DOMAIN fs /\ fs["128x128.png"].kind = "partial"
    /\ "128x128@2x.png" \notin DOMAIN fs

(* The table of section 6 of the specification. *)
ExpectedPng ==
    [f \in {"32x32.png", "64x64.png", "128x128.png", "128x128@2x.png",
            "512x512.png", "icon.png"} |->
        CASE f = "32x32.png" -> 32
          [] f = "64x64.png" -> 64
          [] f = "128x128.png" -> 128
          [] f = "128x128@2x.png" -> 256
          [] f = "512x512.png" -> 512
          [] f = "icon.png" -> 512]

(* C5: after a run that completes, exactly eight files have been written:
   one PNG per table entry holding an icon composed at its listed size, one
   icon.ico and one icon.icns; every composed icon of size S is S x S. *)
C5_EightOutputs ==
    /\ \A im \in Held : im.w > 0 => im.w = im.arg /\ im.h = im.arg
    /\ pc = "exit" =>
        /\ {f \in DOMAIN fs : fs[f].kind = "written"} = SeqRange(OutputOrder)
        /\ Cardinality({f \in DOMAIN fs : fs[f].kind = "written"}) = 8
        /\ \A f \in DOMAIN ExpectedPng :
              /\ fs[f].format = "PNG"
              /\ Len(fs[f].images) = 1
              /\ fs[f].images[1].arg = ExpectedPng[f]
              /\ fs[f].images[1].w = ExpectedPng[f]
              /\ fs[f].images[1].h = ExpectedPng[f]
              /\ fs[f].images[1].complete
        /\ fs["icon.ico"].format = "ICO"
        /\ fs["icon.icns"].format = "ICNS"
        /\ \A f \in DOMAIN fs : \A k \in DOMAIN fs[f].images :
              fs[f].images[k].w = fs[f].images[k].arg /\ fs[f].images[k].h = fs[f].images[k].arg

(* A completed run whose retina entry holds a 256 x 256 icon. *)
C5_Witness ==
    /\ pc = "exit"
    /\ fs0 = NoFiles
    /\ fs["128x128@2x.png"].images[1].w = 256
    /\ fs["icon.png"].images[1].w = 512

(* C6: icon.ico is written from exactly six images, composed by
   generate_icon at 256, 64, 48, 32, 24 and 16, each by its own call; the 256
   image is the base, the other five are the appended images, and the sizes
   requested are that same set. *)
C6_IcoImages ==
    IsWritten("icon.ico") =>
        LET c == fs["icon.ico"] IN
        /\ c.format = "ICO"
        /\ Len(c.images) = 6
        /\ [k \in 1..6 |-> c.images[k].arg] = <<256, 64, 48, 32, 24, 16>>
        /\ \A k \in 1..6 :
              /\ c.images[k].complete
              /\ c.images[k].w = c.images[k].arg /\ c.images[k].h = c.images[k].arg
        /\ \A j, k \in 1..6 : j # k => c.images[j].n # c.images[k].n
        /\ Len(c.sizes) = 6
        /\ SeqRange(c.sizes) = {<<z, z>> : z \in {256, 64, 48, 32, 24, 16}}

(* icon.ico has just been written, its base image the 256 one. *)
C6_Witness ==
    /\ pc = "ico_print"
    /\ IsWritten("icon.ico")
    /\ fs["icon.ico"].images[1].arg = 256
    /\ fs["icon.ico"].images[6].arg = 16

CallsOf(f) ==
    IF f = "icon.ico" THEN 7..12
    ELSE IF f = "icon.icns" THEN {13}
    ELSE {Pos(f)}

Generated == {k \in DOMAIN stdout : stdout[k].kind = "generated"}

(* C9: a file is written only after the compose step of every size it holds
   has completed, its progress line is printed only after its write has
   completed, and there is exactly one progress line per generated file. *)
C9_ComposeWritePrint ==
    /\ \A f \in SeqRange(OutputOrder) :
          IsWritten(f) =>
              /\ \A k \in DOMAIN fs[f].images : fs[f].images[k].complete
              /\ {fs[f].images[k].n : k \in DOMAIN fs[f].images} = CallsOf(f)
    /\ \A k \in Generated : IsWritten(stdout[k].file)
    /\ \A j, k \in Generated : j # k => stdout[j].file # stdout[k].file
    /\ pc = "exit" =>
          /\ {stdout[k].file : k \in Generated} = SeqRange(OutputOrder)
          /\ Cardinality(Generated) = 8

(* The progress line of icon.ico is the seventh line printed. *)
C9_Witness ==
    /\ pc = "icns_call"
    /\ Len(stdout) = 7
    /\ stdout[7].file = "icon.ico"
    /\ IsWritten("icon.ico")

(* C7 as the spec states it, in its weakest reading: no pixel of the corner
   square of side radius / 2 (rounded down) of the background-only layer is
   known to be other than fully transparent. *)
C7_CornerSquareTransparent ==
    (/\ probe.stage = "background"
     /\ probe.radius > 0
     /\ probe.x < probe.radius \div 2
     /\ probe.y < probe.radius \div 2) => probe.lo = 0

(* C7 amended: for the sizes 128, 256 and 512, every pixel of the corner
   square of side radius / 8 at each of the four corners of the
   background-only layer is fully transparent, while the innermost pixel of
   the square of side radius / 2 lies inside the rounded rectangle and is
   fully opaque. *)
C7_CornerEighthTransparent ==
    (probe.stage = "background" /\ probe.size >= 128) =>
        /\ (probe.x < probe.radius \div 8 /\ probe.y < probe.radius \div 8) =>
               probe.hi = 0
        /\ (probe.x = probe.radius \div 2 - 1 /\ probe.y = probe.radius \div 2 - 1) =>
               probe.lo = 255

(* The pixel 9 in from the bottom-right corner of the 512 layer is transparent. *)
C7_Witness ==
    /\ probe.stage = "background"
    /\ probe.size = 512
    /\ probe.radius = 83
    /\ probe.corner = "br"
    /\ probe.x = 9 /\ probe.y = 9
    /\ probe.hi = 0

====
